---- MODULE Spec2Model ----
(***************************************************************************)
(* RoadReport (src/src/roadreport/report.py): the data-processing pipeline *)
(* (DataProcessor.filter / sort), the output formatters (ReportFormatter), *)
(* the report store (ReportStore) and the generation lifecycle             *)
(* (ReportGenerator.generate, ReportManager.generate / get_report /        *)
(* download_report).                                                       *)
(*                                                                         *)
(* Python values are tagged records [t, v]: an int is [t |-> "int"], a str *)
(* is [t |-> "str"] holding its characters as a sequence of one-character  *)
(* strings, None is [t |-> "none"], a list is [t |-> "list"].  A call that *)
(* may raise returns [ok, val, err]: ok = FALSE carries str(e) in err.     *)
(***************************************************************************)
EXTENDS Integers, Sequences, FiniteSets, TLC

(***************************************************************************)
(* Bounds of the model.                                                    *)
(***************************************************************************)
MaxFilterRows == 2
MaxFilters == 2
MaxSortRows == 3
MaxFormatRows == 2
MaxCalls == 2
MaxPipelineCalls == 1
MaxStoreCalls == 1
MaxSchedules == 1

VARIABLES
    args,           \* the arguments of the pure function under check
    out,            \* its results, by call label
    definitions,    \* ReportStore.definitions: definition id -> ReportDefinition
    reports,        \* ReportStore.reports: report id -> GeneratedReport
    schedules,      \* ReportStore.schedules: schedule id -> ReportSchedule
    uuids,          \* the uuid4 values handed out so far
    pc,             \* per thread: where its generate call stands
    frame,          \* per thread: the locals of its generate call
    ret,            \* per thread: what its last ReportManager.generate call returned
    lastRead        \* what the last get_report / download_report returned

vars == <<args, out, definitions, reports, schedules, uuids, pc, frame, ret, lastRead>>

(***************************************************************************)
(* Python values.                                                          *)
(***************************************************************************)
IntV(n) == [t |-> "int", v |-> n]
StrV(s) == [t |-> "str", v |-> s]
ListV(s) == [t |-> "list", v |-> s]
NoneV == [t |-> "none", v |-> 0]
EmptyStr == StrV(<< >>)

Ok(x) == [ok |-> TRUE, val |-> x, err |-> ""]
Raise(msg) == [ok |-> FALSE, val |-> << >>, err |-> msg]

\* The characters that occur, in code-point order; Ord is a character's rank.
Alphabet == <<"$", ".", "0", "1", "2", "3", "4", "5", "6", "7", "8", "9", "N", "a", "b", "e", "n", "o">>
Ord(c) == CHOOSE i \in 1..Len(Alphabet) : Alphabet[i] = c

\* str(n) for n >= 0: the decimal digits.
RECURSIVE Digits(_)
Digits(n) ==
    IF n < 10 THEN <<Alphabet[n + 3]>>
    ELSE Digits(n \div 10) \o <<Alphabet[(n % 10) + 3]>>

\* str(value) for an int, a str and None.
PyStr(value) ==
    CASE value.t = "int" -> Digits(value.v)
      [] value.t = "str" -> value.v
      [] OTHER -> <<"N", "o", "n", "e">>

\* needle in haystack, both character sequences.
IsSubstring(needle, hay) ==
    \E i \in 0..(Len(hay) - Len(needle)) :
        \A j \in 1..Len(needle) : hay[i + j] = needle[j]

\* a == b
PyEq(a, b) == a.t = b.t /\ a.v = b.v

\* s < u on character sequences: lexicographic by code point.
RECURSIVE StrLt(_, _)
StrLt(s, u) ==
    IF u = << >> THEN FALSE
    ELSE IF s = << >> THEN TRUE
    ELSE IF Ord(Head(s)) # Ord(Head(u)) THEN Ord(Head(s)) < Ord(Head(u))
    ELSE StrLt(Tail(s), Tail(u))

\* a < b: defined between two ints and between two strs, a TypeError otherwise
\* (also between None and None).
PyLt(a, b) ==
    IF a.t = "int" /\ b.t = "int" THEN Ok(a.v < b.v)
    ELSE IF a.t = "str" /\ b.t = "str" THEN Ok(StrLt(a.v, b.v))
    ELSE Raise("not supported between instances")

\* row.get(field, default)
Get(row, fld, default) == IF fld \in DOMAIN row THEN row[fld] ELSE default

Reverse(s) == [i \in 1..Len(s) |-> s[Len(s) + 1 - i]]

(***************************************************************************)
(* DataProcessor                                                           *)
(***************************************************************************)
\* _apply_filter(value, operator, filter_value)
ApplyFilter(value, operator, filter_value) ==
    CASE operator = "eq" -> Ok(PyEq(value, filter_value))
      [] operator = "ne" -> Ok(~PyEq(value, filter_value))
      [] operator = "gt" -> PyLt(filter_value, value)
      [] operator = "lt" -> PyLt(value, filter_value)
      [] operator = "gte" ->
            LET r == PyLt(value, filter_value) IN IF r.ok THEN Ok(~r.val) ELSE r
      [] operator = "lte" ->
            LET r == PyLt(filter_value, value) IN IF r.ok THEN Ok(~r.val) ELSE r
      [] operator = "contains" ->
            IF filter_value.t = "str"
            THEN Ok(IsSubstring(filter_value.v, PyStr(value)))
            ELSE Raise("'in <string>' requires string as left operand")
      [] operator = "in" ->
            IF filter_value.t = "list"
            THEN Ok(\E i \in 1..Len(filter_value.v) : PyEq(value, filter_value.v[i]))
            ELSE IF filter_value.t = "str"
            THEN IF value.t = "str"
                 THEN Ok(IsSubstring(value.v, filter_value.v))
                 ELSE Raise("'in <string>' requires string as left operand")
            ELSE Raise("argument is not iterable")
      [] OTHER -> Ok(TRUE)

\* FilterOne with the passing rows collected back to front.
RECURSIVE FilterOneReversed(_, _)
FilterOneReversed(rows, f) ==
    IF rows = << >> THEN Ok(<< >>)
    ELSE LET r == ApplyFilter(Get(Head(rows), f.field, NoneV), f.operator, f.value)
         IN  IF ~r.ok THEN r
             ELSE LET rest == FilterOneReversed(Tail(rows), f)
                  IN  IF ~rest.ok THEN rest
                      ELSE IF r.val THEN Ok(rest.val \o <<Head(rows)>>)
                      ELSE rest

\* The list comprehension of filter for one filter f: the rows that pass, or
\* the exception of the first row whose predicate raises.
RECURSIVE FilterOne(_, _)
FilterOne(rows, f) ==
    IF rows = << >> THEN Ok(<< >>)
    ELSE LET r == ApplyFilter(Get(Head(rows), f.field, NoneV), f.operator, f.value)
         IN  IF ~r.ok THEN r
             ELSE LET rest == FilterOne(Tail(rows), f)
                  IN  IF ~rest.ok THEN rest
                      ELSE IF r.val THEN Ok(<<Head(rows)>> \o rest.val)
                      ELSE rest

\* filter(data, filters): the filters applied one after the other.
RECURSIVE Filter(_, _)
Filter(rows, filters) ==
    IF filters = << >> THEN Ok(rows)
    ELSE LET r == FilterOne(rows, Head(filters))
         IN  IF ~r.ok THEN r ELSE Filter(r.val, Tail(filters))

\* order.lower()
Lower(order) ==
    CASE order = "DESC" -> "desc"
      [] order = "Desc" -> "desc"
      [] order = "ASC" -> "asc"
      [] OTHER -> order

\* One insertion of the stable sort: x goes after the last element of the sorted
\* prefix that it is not less than.
RECURSIVE Insert(_, _, _)
Insert(sorted, x, fld) ==
    IF sorted = << >> THEN Ok(<<x>>)
    ELSE LET last == sorted[Len(sorted)]
             r == PyLt(Get(x, fld, EmptyStr), Get(last, fld, EmptyStr))
         IN  IF ~r.ok THEN r
             ELSE IF ~r.val THEN Ok(sorted \o <<x>>)
             ELSE LET rest == Insert(SubSeq(sorted, 1, Len(sorted) - 1), x, fld)
                  IN  IF ~rest.ok THEN rest ELSE Ok(rest.val \o <<last>>)

RECURSIVE StableSort(_, _)
StableSort(rows, fld) ==
    IF rows = << >> THEN Ok(<< >>)
    ELSE LET r == StableSort(SubSeq(rows, 1, Len(rows) - 1), fld)
         IN  IF ~r.ok THEN r ELSE Insert(r.val, rows[Len(rows)], fld)

\* Sorted with the descending order made by reversing the ascending result.
SortedThenReversed(rows, fld, reverse) ==
    LET r == StableSort(rows, fld)
    IN  IF reverse /\ r.ok THEN Ok(Reverse(r.val)) ELSE r

\* sorted(data, key, reverse): with reverse the list is reversed, sorted
\* stably, and reversed again.
Sorted(rows, fld, reverse) ==
    IF reverse
    THEN LET r == StableSort(Reverse(rows), fld)
         IN  IF r.ok THEN Ok(Reverse(r.val)) ELSE r
    ELSE StableSort(rows, fld)

\* sort(data, field, order)
Sort(rows, fld, order) == Sorted(rows, fld, Lower(order) = "desc")

(***************************************************************************)
(* ReportFormatter.  The rendered bytes are kept as a document             *)
(* [kind, report, row_count, header, body]: the header cells and, row by   *)
(* row, the text of every cell.  row_count is -1 in the layouts that print *)
(* no row count.  The timestamps (datetime.now()) are left out.            *)
(***************************************************************************)
NoContent == [kind |-> "none", report |-> "", row_count |-> 0, header |-> << >>, body |-> << >>]

\* The fields of a row in the order json.dumps prints them.
FieldOrder == <<"x", "t">>

\* A column's formatter callback applied to a value.  "money" is
\* lambda x: f"${x:,.2f}" (values below 1000): it raises on a str and on None.
CallFormatter(formatter, value) ==
    IF formatter = "money"
    THEN IF value.t = "int"
         THEN Ok(StrV(<<"$">> \o Digits(value.v) \o <<".", "0", "0">>))
         ELSE Raise("Unknown format code 'f'")
    ELSE Ok(value)

\* ColumnValue without the formatter call.
ColumnValueRaw(row, col) == Ok(Get(row, col.field, EmptyStr))

\* value = row.get(col.field, ""); if col.formatter: value = col.formatter(value)
ColumnValue(row, col) ==
    LET value == Get(row, col.field, EmptyStr)
    IN  IF col.formatter # "none" THEN CallFormatter(col.formatter, value) ELSE Ok(value)

\* What csv.DictWriter writes for a value: None as the empty string, else str().
CsvText(value) == IF value.t = "none" THEN << >> ELSE PyStr(value)

\* What json.dumps prints for a value.
JsonText(value) ==
    CASE value.t = "int" -> Digits(value.v)
      [] value.t = "str" -> <<"\"">> \o value.v \o <<"\"">>
      [] OTHER -> <<"n", "u", "l", "l">>

\* One row of "data" in the JSON output: every field of the row, raw.
JsonRow(row) ==
    LET present == SelectSeq(FieldOrder, LAMBDA f : f \in DOMAIN row)
    IN  [i \in 1..Len(present) |-> <<"\"", present[i], "\"", ":">> \o JsonText(row[present[i]])]

\* The cells of the rows of a table layout (CSV, HTML, Markdown): per row and
\* column the column's value, through the formatter, as text; the exception of
\* the first formatter call that raises.
RECURSIVE RowCells(_, _, _)
RowCells(row, columns, kind) ==
    IF columns = << >> THEN Ok(<< >>)
    ELSE LET v == ColumnValue(row, Head(columns))
         IN  IF ~v.ok THEN v
             ELSE LET rest == RowCells(row, Tail(columns), kind)
                  IN  IF ~rest.ok THEN rest
                      ELSE Ok(<<IF kind = "csv" THEN CsvText(v.val) ELSE PyStr(v.val)>> \o rest.val)

RECURSIVE TableBody(_, _, _)
TableBody(rows, columns, kind) ==
    IF rows = << >> THEN Ok(<< >>)
    ELSE LET r == RowCells(Head(rows), columns, kind)
         IN  IF ~r.ok THEN r
             ELSE LET rest == TableBody(Tail(rows), columns, kind)
                  IN  IF ~rest.ok THEN rest ELSE Ok(<<r.val>> \o rest.val)

ColumnNames(definition) == [i \in 1..Len(definition.columns) |-> definition.columns[i].name]

\* _to_json: len(data) raises on an iterable without a length.
ToJson(definition, data) ==
    IF ~data.sized THEN Raise("object has no len()")
    ELSE Ok([kind |-> "json", report |-> definition.name, row_count |-> Len(data.rows),
             header |-> ColumnNames(definition),
             body |-> [i \in 1..Len(data.rows) |-> JsonRow(data.rows[i])]])

\* _to_csv
ToCsv(definition, data) ==
    LET b == TableBody(data.rows, definition.columns, "csv")
    IN  IF ~b.ok THEN b
        ELSE Ok([kind |-> "csv", report |-> "", row_count |-> -1,
                 header |-> ColumnNames(definition), body |-> b.val])

\* _to_html: the page head prints len(data) before the rows are rendered.
ToHtml(definition, data) ==
    IF ~data.sized THEN Raise("object has no len()")
    ELSE LET b == TableBody(data.rows, definition.columns, "html")
         IN  IF ~b.ok THEN b
             ELSE Ok([kind |-> "html", report |-> definition.name, row_count |-> Len(data.rows),
                      header |-> ColumnNames(definition), body |-> b.val])

\* _to_markdown
ToMarkdown(definition, data) ==
    LET b == TableBody(data.rows, definition.columns, "markdown")
    IN  IF ~b.ok THEN b
        ELSE Ok([kind |-> "markdown", report |-> definition.name, row_count |-> -1,
                 header |-> ColumnNames(definition), body |-> b.val])

\* ReportFormat
Formats == {"json", "csv", "html", "pdf", "excel", "markdown"}

\* format(definition, data, output_format)
Format(definition, data, output_format) ==
    CASE output_format = "json" -> ToJson(definition, data)
      [] output_format = "csv" -> ToCsv(definition, data)
      [] output_format = "html" -> ToHtml(definition, data)
      [] output_format = "markdown" -> ToMarkdown(definition, data)
      [] OTHER -> ToJson(definition, data)

(***************************************************************************)
(* The records of the data model.                                          *)
(***************************************************************************)
EmptyMap == [k \in {} |-> 0]

\* ReportColumn (width, sortable and filterable are never read).
Column(name, fld, formatter) == [name |-> name, field |-> fld, formatter |-> formatter]

\* ReportFilter
ReportFilter(fld, operator, value) == [field |-> fld, operator |-> operator, value |-> value]

\* ReportDefinition.  sort_by "" stands for None: `if definition.sort_by` takes
\* both to be unset.  data_source names the callback, "none" for None.
ReportDefinition(id, name, columns, data_source, filters, sort_by, sort_order) ==
    [id |-> id, name |-> name, columns |-> columns, data_source |-> data_source,
     filters |-> filters, sort_by |-> sort_by, sort_order |-> sort_order]

NoDefinition == ReportDefinition("", "", << >>, "none", << >>, "", "asc")

\* error: None, or the message str(e).
MsgV(msg) == [t |-> "str", v |-> msg]

\* GeneratedReport: the dataclass defaults, but for id, definition_id, format
\* and status.  generated_at is kept as set / not set.
GeneratedReport(id, definition_id, format, status) ==
    [id |-> id, definition_id |-> definition_id, format |-> format, status |-> status,
     content |-> NoContent, row_count |-> 0, generated_at |-> FALSE, error |-> NoneV]

NoReport == GeneratedReport(0, "", "json", "pending")

NoData == [sized |-> TRUE, rows |-> << >>]

NoFrame == [definition |-> NoDefinition, output_format |-> "json", filters |-> << >>,
            report |-> NoReport, data |-> NoData]

\* What ReportManager.generate gave its caller, with the definition id it was
\* called with: nothing yet, None, a GeneratedReport, or an exception.
Unset == [kind |-> "unset", definition_id |-> "", report |-> NoReport, err |-> ""]
Running(definition_id) ==
    [kind |-> "running", definition_id |-> definition_id, report |-> NoReport, err |-> ""]
ReturnedNone(definition_id) ==
    [kind |-> "none", definition_id |-> definition_id, report |-> NoReport, err |-> ""]
Returned(report) ==
    [kind |-> "report", definition_id |-> report.definition_id, report |-> report, err |-> ""]
Raised(definition_id, msg) ==
    [kind |-> "raised", definition_id |-> definition_id, report |-> NoReport, err |-> msg]

Threads == {"t1", "t2"}

(***************************************************************************)
(* The callbacks a caller hands to define_report.                          *)
(***************************************************************************)
Row(x, tag) == ("x" :> x) @@ ("t" :> IntV(tag))

\* definition.data_source(): what each data source does when called.
\* "sales" returns a list, "mixed" a list whose x holds an int and a str,
\* "stream" a generator over the sales rows; "boom" raises with a message,
\* "silent" raises an exception without one (str(e) is "").
CallDataSource(data_source) ==
    CASE data_source = "sales" ->
            Ok([sized |-> TRUE, rows |-> <<Row(IntV(1), 1), Row(IntV(2), 2)>>])
      [] data_source = "mixed" ->
            Ok([sized |-> TRUE, rows |-> <<Row(IntV(1), 1), Row(StrV(<<"a">>), 2)>>])
      [] data_source = "stream" ->
            Ok([sized |-> FALSE, rows |-> <<Row(IntV(1), 1), Row(IntV(2), 2)>>])
      [] data_source = "boom" -> Raise("boom")
      [] OTHER -> Raise("")

(***************************************************************************)
(* ReportStore and ReportManager: the operations outside generation.       *)
(* A write runs under the store's lock, and a read is one dictionary       *)
(* lookup: each is one step.                                               *)
(***************************************************************************)
\* save_definition / save_report / save_schedule: mapping[key] = value
Put(mapping, key, value) == (key :> value) @@ mapping

\* uuid.uuid4(): a value never handed out before.
Uuid4 == uuids + 1

\* define_report: the id is a digest of the name and the clock, any id may come
\* out, one already in use included.
DefineReport(t, id, d) ==
    /\ pc[t] = "idle"
    /\ definitions' = Put(definitions, id,
            ReportDefinition(id, d.name, d.columns, d.data_source, d.filters, d.sort_by, d.sort_order))
    /\ UNCHANGED <<args, out, reports, schedules, uuids, pc, frame, ret, lastRead>>

\* _calculate_next_run: the days from now.
CalculateNextRun(frequency) ==
    CASE frequency = "daily" -> 1
      [] frequency = "weekly" -> 7
      [] frequency = "monthly" -> 30
      [] frequency = "quarterly" -> 90
      [] OTHER -> 1

\* schedule_report
ScheduleReport(t, definition_id, frequency, output_format) ==
    /\ pc[t] = "idle"
    /\ schedules' = Put(schedules, Uuid4,
            [id |-> Uuid4, definition_id |-> definition_id, format |-> output_format,
             frequency |-> frequency, next_run |-> CalculateNextRun(frequency), enabled |-> TRUE])
    /\ uuids' = Uuid4
    /\ UNCHANGED <<args, out, definitions, reports, pc, frame, ret, lastRead>>

\* None, from get_report or download_report.
NotFound(op) ==
    [op |-> op, id |-> 0, found |-> FALSE, status |-> "", row_count |-> 0,
     generated_at |-> FALSE, content |-> NoContent]

\* ReportManager.get_report: the status fields of the stored report, or None.
GetReport(report_id) ==
    /\ lastRead' =
         IF report_id \in DOMAIN reports
         THEN LET report == reports[report_id]
              IN  [op |-> "get_report", id |-> report.id, found |-> TRUE, status |-> report.status,
                   row_count |-> report.row_count, generated_at |-> report.generated_at,
                   content |-> NoContent]
         ELSE NotFound("get_report")
    /\ UNCHANGED <<args, out, definitions, reports, schedules, uuids, pc, frame, ret>>

\* ReportManager.download_report: the content of the stored report, or None.
DownloadReport(report_id) ==
    /\ lastRead' =
         IF report_id \in DOMAIN reports
         THEN LET report == reports[report_id]
              IN  [op |-> "download_report", id |-> report.id, found |-> TRUE, status |-> "",
                   row_count |-> 0, generated_at |-> FALSE, content |-> report.content]
         ELSE NotFound("download_report")
    /\ UNCHANGED <<args, out, definitions, reports, schedules, uuids, pc, frame, ret>>

(***************************************************************************)
(* ReportManager.generate and ReportGenerator.generate, step by step.      *)
(***************************************************************************)
FilterKeys == {"field", "operator", "value"}

\* GenerateUnknown answering with a failed report that it saves.
GenerateUnknownSavesFailure(t, definition_id, output_format, filters) ==
    /\ pc[t] = "idle"
    /\ definition_id \notin DOMAIN definitions
    /\ LET report == [GeneratedReport(Uuid4, definition_id, output_format, "failed")
                        EXCEPT !.error = MsgV("unknown definition")]
       IN  /\ reports' = Put(reports, Uuid4, report)
           /\ ret' = [ret EXCEPT ![t] = Returned(report)]
    /\ uuids' = Uuid4
    /\ UNCHANGED <<args, out, definitions, schedules, pc, frame, lastRead>>

\* ReportManager.generate, the definition id unknown: None.
GenerateUnknown(t, definition_id, output_format, filters) ==
    /\ pc[t] = "idle"
    /\ definition_id \notin DOMAIN definitions
    /\ ret' = [ret EXCEPT ![t] = ReturnedNone(definition_id)]
    /\ UNCHANGED <<args, out, definitions, reports, schedules, uuids, pc, frame, lastRead>>

\* ReportManager.generate, a filter descriptor without one of its keys: the
\* KeyError of f["..."] leaves the call.
GenerateBadFilter(t, definition_id, output_format, filters) ==
    /\ pc[t] = "idle"
    /\ definition_id \in DOMAIN definitions
    /\ \E i \in 1..Len(filters) : ~(FilterKeys \subseteq DOMAIN filters[i])
    /\ ret' = [ret EXCEPT ![t] = Raised(definition_id, "KeyError")]
    /\ UNCHANGED <<args, out, definitions, reports, schedules, uuids, pc, frame, lastRead>>

\* NewReport with status left at the dataclass default.
NewReportDefaultStatus(definition, output_format) ==
    GeneratedReport(Uuid4, definition.id, output_format, "pending")

\* report = GeneratedReport(id=str(uuid.uuid4()), ..., status=GENERATING)
NewReport(definition, output_format) ==
    GeneratedReport(Uuid4, definition.id, output_format, "generating")

\* GenerateBegin with the new report put into the store as it is created.
GenerateBeginPersists(t, definition_id, output_format, filters) ==
    /\ pc[t] = "idle"
    /\ definition_id \in DOMAIN definitions
    /\ \A i \in 1..Len(filters) : FilterKeys \subseteq DOMAIN filters[i]
    /\ LET definition == definitions[definition_id]
           filter_objects == [i \in 1..Len(filters) |->
                ReportFilter(filters[i].field, filters[i].operator, filters[i].value)]
       IN  /\ frame' = [frame EXCEPT ![t] =
                    [definition |-> definition, output_format |-> output_format,
                     filters |-> filter_objects,
                     report |-> NewReport(definition, output_format),
                     data |-> NoData]]
           /\ reports' = Put(reports, Uuid4, NewReport(definition, output_format))
    /\ uuids' = Uuid4
    /\ pc' = [pc EXCEPT ![t] = "fetch"]
    /\ ret' = [ret EXCEPT ![t] = Running(definition_id)]
    /\ UNCHANGED <<args, out, definitions, schedules, lastRead>>

\* ReportManager.generate up to the try of ReportGenerator.generate: the
\* definition looked up, the descriptors turned into ReportFilters, the
\* GeneratedReport created with a fresh id and status generating.
GenerateBegin(t, definition_id, output_format, filters) ==
    /\ pc[t] = "idle"
    /\ definition_id \in DOMAIN definitions
    /\ \A i \in 1..Len(filters) : FilterKeys \subseteq DOMAIN filters[i]
    /\ LET definition == definitions[definition_id]
           filter_objects == [i \in 1..Len(filters) |->
                ReportFilter(filters[i].field, filters[i].operator, filters[i].value)]
       IN  frame' = [frame EXCEPT ![t] =
                [definition |-> definition, output_format |-> output_format,
                 filters |-> filter_objects,
                 report |-> NewReport(definition, output_format),
                 data |-> NoData]]
    /\ uuids' = Uuid4
    /\ pc' = [pc EXCEPT ![t] = "fetch"]
    /\ ret' = [ret EXCEPT ![t] = Running(definition_id)]
    /\ UNCHANGED <<args, out, definitions, reports, schedules, lastRead>>

\* Failed with the status left as it was.
FailedKeepsStatus(report, msg) == [report EXCEPT !.error = MsgV(msg)]

\* except Exception as e: status failed, error str(e); what the report held is kept.
Failed(report, msg) == [report EXCEPT !.status = "failed", !.error = MsgV(msg)]

\* A step of the try block that raised: the handler runs, the save is next.
Fail(t, msg) ==
    /\ frame' = [frame EXCEPT ![t].report = Failed(frame[t].report, msg)]
    /\ pc' = [pc EXCEPT ![t] = "save"]

\* A step of the try block that went through, leaving data.
Proceed(t, data, next) ==
    /\ frame' = [frame EXCEPT ![t].data = data]
    /\ pc' = [pc EXCEPT ![t] = next]

\* data = definition.data_source() if there is one, else []
FetchData(t) ==
    /\ pc[t] = "fetch"
    /\ LET r == IF frame[t].definition.data_source # "none"
                THEN CallDataSource(frame[t].definition.data_source)
                ELSE Ok(NoData)
       IN  IF r.ok THEN Proceed(t, r.val, "filter") ELSE Fail(t, r.err)
    /\ UNCHANGED <<args, out, definitions, reports, schedules, uuids, ret, lastRead>>

\* DataProcessor.filter on the data object: without filters the object itself,
\* else a list.
FilterData(data, filters) ==
    IF filters = << >> THEN Ok(data)
    ELSE LET r == Filter(data.rows, filters)
         IN  IF r.ok THEN Ok([sized |-> TRUE, rows |-> r.val]) ELSE r

\* data = self.processor.filter(data, definition.filters + (filters or []))
ApplyFilters(t) ==
    /\ pc[t] = "filter"
    /\ LET r == FilterData(frame[t].data, frame[t].definition.filters \o frame[t].filters)
       IN  IF r.ok THEN Proceed(t, r.val, "sort") ELSE Fail(t, r.err)
    /\ UNCHANGED <<args, out, definitions, reports, schedules, uuids, ret, lastRead>>

\* if definition.sort_by: data = self.processor.sort(...), a list
SortData(t) ==
    /\ pc[t] = "sort"
    /\ LET definition == frame[t].definition
           r == IF definition.sort_by # ""
                THEN Sort(frame[t].data.rows, definition.sort_by, definition.sort_order)
                ELSE Ok(frame[t].data.rows)
       IN  IF ~r.ok THEN Fail(t, r.err)
           ELSE IF definition.sort_by # ""
           THEN Proceed(t, [sized |-> TRUE, rows |-> r.val], "format")
           ELSE Proceed(t, frame[t].data, "format")
    /\ UNCHANGED <<args, out, definitions, reports, schedules, uuids, ret, lastRead>>

\* report.content = self.formatter.format(definition, data, output_format)
FormatOutput(t) ==
    /\ pc[t] = "format"
    /\ LET r == Format(frame[t].definition, frame[t].data, frame[t].output_format)
       IN  IF r.ok
           THEN /\ frame' = [frame EXCEPT ![t].report.content = r.val]
                /\ pc' = [pc EXCEPT ![t] = "finalize"]
           ELSE Fail(t, r.err)
    /\ UNCHANGED <<args, out, definitions, reports, schedules, uuids, ret, lastRead>>

\* report.row_count = len(data); report.status = COMPLETED; report.generated_at = now
Finalize(t) ==
    /\ pc[t] = "finalize"
    /\ IF frame[t].data.sized
       THEN /\ frame' = [frame EXCEPT ![t].report =
                    [frame[t].report EXCEPT !.row_count = Len(frame[t].data.rows),
                                            !.status = "completed",
                                            !.generated_at = TRUE]]
            /\ pc' = [pc EXCEPT ![t] = "save"]
       ELSE Fail(t, "object has no len()")
    /\ UNCHANGED <<args, out, definitions, reports, schedules, uuids, ret, lastRead>>

\* SaveReport with the save done for a completed report only.
SaveReportIfCompleted(t) ==
    /\ pc[t] = "save"
    /\ reports' = IF frame[t].report.status = "completed"
                  THEN Put(reports, frame[t].report.id, frame[t].report)
                  ELSE reports
    /\ ret' = [ret EXCEPT ![t] = Returned(frame[t].report)]
    /\ frame' = [frame EXCEPT ![t] = NoFrame]
    /\ pc' = [pc EXCEPT ![t] = "idle"]
    /\ UNCHANGED <<args, out, definitions, schedules, uuids, lastRead>>

\* self.store.save_report(report); return report
SaveReport(t) ==
    /\ pc[t] = "save"
    /\ reports' = Put(reports, frame[t].report.id, frame[t].report)
    /\ ret' = [ret EXCEPT ![t] = Returned(frame[t].report)]
    /\ frame' = [frame EXCEPT ![t] = NoFrame]
    /\ pc' = [pc EXCEPT ![t] = "idle"]
    /\ UNCHANGED <<args, out, definitions, schedules, uuids, lastRead>>

(***************************************************************************)
(* What the callers pass in.                                               *)
(***************************************************************************)
\* The arguments of define_report.
Args(name, columns, data_source, filters, sort_by, sort_order) ==
    [name |-> name, columns |-> columns, data_source |-> data_source,
     filters |-> filters, sort_by |-> sort_by, sort_order |-> sort_order]

XMoney == <<Column("X", "x", "money")>>
XRaw == <<Column("X", "x", "none")>>

\* The sales report of example_usage, with a default filter.
SalesReport == Args("Sales", XMoney, "sales", <<ReportFilter("x", "gte", IntV(1))>>, "x", "desc")
SilentReport == Args("Silent", XRaw, "silent", << >>, "", "asc")

Catalogue ==
    { SalesReport,
      SilentReport,
      Args("Boom", XRaw, "boom", << >>, "", "asc"),
      Args("Empty", XRaw, "none", << >>, "x", "asc"),
      Args("Stream", XMoney, "stream", << >>, "", "asc"),
      Args("MixedSorted", XRaw, "mixed", << >>, "x", "asc"),
      Args("MixedMoney", XMoney, "mixed", << >>, "", "asc") }

\* Filter descriptors as callers write them; the last lacks its value.
GtOne == [field |-> "x", operator |-> "gt", value |-> IntV(1)]
NoValue == [field |-> "x", operator |-> "gt"]

DefIds == {"d1", "d2"}
UnknownId == "d0"
Frequencies == {"daily", "weekly", "monthly", "quarterly"}

\* generate calls begun so far: the reports saved and those in the making.
Calls == Cardinality(DOMAIN reports) + Cardinality({t \in Threads : pc[t] # "idle"})

\* Every id uuid4 can have handed out, and one more.
ReportIds == 1..(MaxCalls + 1)

(***************************************************************************)
(* Spec: two threads call the manager at the same time.                    *)
(***************************************************************************)
NoArgs == [fn |-> "none"]

StoreInit ==
    /\ definitions = EmptyMap
    /\ reports = EmptyMap
    /\ schedules = EmptyMap
    /\ uuids = 0
    /\ pc = [t \in Threads |-> "idle"]
    /\ frame = [t \in Threads |-> NoFrame]
    /\ ret = [t \in Threads |-> Unset]
    /\ lastRead = NotFound("none")

Init ==
    /\ StoreInit
    /\ args = NoArgs
    /\ out = EmptyMap

Step(t) ==
    \/ FetchData(t)
    \/ ApplyFilters(t)
    \/ SortData(t)
    \/ FormatOutput(t)
    \/ Finalize(t)
    \/ SaveReport(t)

Next ==
    \/ \E t \in Threads, d \in {SalesReport, SilentReport} : DefineReport(t, "d1", d)
    \/ \E t \in Threads, id \in {"d1", UnknownId}, fmt \in {"json", "csv"} :
            \/ GenerateUnknown(t, id, fmt, << >>)
            \/ Calls < MaxCalls /\ GenerateBegin(t, id, fmt, << >>)
    \/ \E t \in Threads : Step(t)
    \/ \E id \in ReportIds : GetReport(id) \/ DownloadReport(id)

Spec == Init /\ [][Next]_vars

(***************************************************************************)
(* SpecPipeline: one caller, every definition of the catalogue, every      *)
(* format, with and without filters of its own.                            *)
(***************************************************************************)
NextPipeline ==
    \/ \E d \in Catalogue : DefineReport("t1", "d1", d)
    \/ \E id \in {"d1", UnknownId}, fmt \in Formats :
            \/ GenerateUnknown("t1", id, fmt, <<GtOne>>)
            \/ GenerateBadFilter("t1", id, fmt, <<GtOne, NoValue>>)
            \/ \E fs \in {<< >>, <<GtOne>>} :
                    Calls < MaxPipelineCalls /\ GenerateBegin("t1", id, fmt, fs)
    \/ Step("t1")

SpecPipeline == Init /\ [][NextPipeline]_vars
(***************************************************************************)
(* SpecStore: one caller defines, schedules and generates; the three maps  *)
(* of the store all fill.                                                  *)
(***************************************************************************)
NextStore ==
    \/ \E id \in DefIds, d \in {SalesReport, SilentReport} : DefineReport("t1", id, d)
    \/ \E id \in {"d1", UnknownId}, f \in Frequencies :
            Cardinality(DOMAIN schedules) < MaxSchedules /\ ScheduleReport("t1", id, f, "csv")
    \/ \E id \in DefIds \cup {UnknownId}, fs \in {<< >>, <<NoValue>>} :
            \/ GenerateUnknown("t1", id, "csv", fs)
            \/ Calls < MaxStoreCalls /\ GenerateBegin("t1", id, "csv", fs)
    \/ Step("t1")

SpecStore == Init /\ [][NextStore]_vars
(***************************************************************************)
(* The pure functions, each under a specification that draws its inputs.   *)
(***************************************************************************)
SeqsUpTo(S, n) == UNION {[1..k -> S] : k \in 0..n}

\* A row without the field x.
Missing == [t |-> "missing", v |-> 0]

\* The rows whose x values are keys; each row carries its position in t.
MkRows(keys) ==
    [i \in 1..Len(keys) |->
        IF keys[i] = Missing THEN ("t" :> IntV(i)) ELSE Row(keys[i], i)]

\* The filters tried: every operator of _apply_filter and one it does not know.
FilterChoices ==
    { ReportFilter("x", op, v) : op \in {"eq", "ne", "gt", "lt", "gte", "lte"},
                                 v \in {IntV(1), StrV(<<"a">>)} }
    \cup { ReportFilter("x", "contains", v) : v \in {StrV(<<"1">>), IntV(1)} }
    \cup { ReportFilter("x", "in", v) :
                v \in {ListV(<<IntV(2), StrV(<<"a">>)>>), StrV(<<"b", "a">>), IntV(1)} }
    \cup { ReportFilter("x", "like", IntV(1)) }

InitFilter ==
    /\ StoreInit
    /\ \E keys \in SeqsUpTo({Missing, IntV(1), IntV(2), StrV(<<"a">>)}, MaxFilterRows),
          filters \in SeqsUpTo(FilterChoices, MaxFilters) :
            args = [fn |-> "filter", rows |-> MkRows(keys), filters |-> filters]
    /\ out = EmptyMap

\* filter(rows, filters)
FilterCall ==
    /\ "first" \notin DOMAIN out
    /\ out' = Put(out, "first", Filter(args.rows, args.filters))
    /\ UNCHANGED <<args, definitions, reports, schedules, uuids, pc, frame, ret, lastRead>>

\* filter(filter(rows, filters), filters)
FilterAgain ==
    /\ "first" \in DOMAIN out
    /\ "again" \notin DOMAIN out
    /\ out["first"].ok
    /\ out' = Put(out, "again", Filter(out["first"].val, args.filters))
    /\ UNCHANGED <<args, definitions, reports, schedules, uuids, pc, frame, ret, lastRead>>

NextFilter == FilterCall \/ FilterAgain

SpecFilter == InitFilter /\ [][NextFilter]_vars

Orders == {"asc", "desc", "DESC"}

InitSort ==
    /\ StoreInit
    /\ \E keys \in SeqsUpTo({Missing, NoneV, IntV(1), IntV(2), StrV(<<"a">>), StrV(<<"b">>)},
                            MaxSortRows) :
            args = [fn |-> "sort", rows |-> MkRows(keys), field |-> "x"]
    /\ out = EmptyMap

\* sort(rows, field, order)
SortCall(order) ==
    /\ order \notin DOMAIN out
    /\ out' = Put(out, order, Sort(args.rows, args.field, order))
    /\ UNCHANGED <<args, definitions, reports, schedules, uuids, pc, frame, ret, lastRead>>

NextSort == \E order \in Orders : SortCall(order)

SpecSort == InitSort /\ [][NextSort]_vars

InitFormat ==
    /\ StoreInit
    /\ \E keys \in SeqsUpTo({Missing, NoneV, IntV(1), IntV(12), StrV(<<"a">>)}, MaxFormatRows),
          columns \in {XRaw, XMoney, <<Column("Tag", "t", "none"), Column("X", "x", "money")>>},
          sized \in BOOLEAN,
          output_format \in Formats :
            args = [fn |-> "format",
                    definition |-> ReportDefinition("d1", "Report", columns, "none", << >>, "", "asc"),
                    data |-> [sized |-> sized, rows |-> MkRows(keys)],
                    output_format |-> output_format]
    /\ out = EmptyMap

\* format(definition, data, output_format)
FormatCall ==
    /\ "bytes" \notin DOMAIN out
    /\ out' = Put(out, "bytes", Format(args.definition, args.data, args.output_format))
    /\ UNCHANGED <<args, definitions, reports, schedules, uuids, pc, frame, ret, lastRead>>

NextFormat == FormatCall

SpecFormat == InitFormat /\ [][NextFormat]_vars
(***************************************************************************)
(* Properties of DataProcessor and ReportFormatter.                        *)
(***************************************************************************)
RECURSIVE IsSubseq(_, _)
IsSubseq(s, u) ==
    IF s = << >> THEN TRUE
    ELSE IF u = << >> THEN FALSE
    ELSE IF Head(s) = Head(u) THEN IsSubseq(Tail(s), Tail(u))
    ELSE IsSubseq(s, Tail(u))

Passes(row, f) ==
    LET r == ApplyFilter(Get(row, f.field, NoneV), f.operator, f.value)
    IN  r.ok /\ r.val

\* C8: when filter does not raise, its output is a subsequence of its input,
\* every row of the output passes every filter, and filtering the output again
\* with the same filters does not raise and returns the output unchanged.
FilterSubsequenceIdempotent ==
    ("first" \in DOMAIN out /\ out["first"].ok) =>
        LET result == out["first"].val
        IN  /\ IsSubseq(result, args.rows)
            /\ \A i \in 1..Len(result), j \in 1..Len(args.filters) :
                    Passes(result[i], args.filters[j])
            /\ "again" \in DOMAIN out =>
                    out["again"].ok /\ out["again"].val = result

\* Two filters on two rows kept the second row only, and were applied again.
FilterWitness ==
    /\ "again" \in DOMAIN out
    /\ Len(args.filters) = 2
    /\ Len(args.rows) = 2
    /\ out["first"].val = <<args.rows[2]>>

SortKey(row) == Get(row, "x", EmptyStr)

\* Rows with equal keys stand in the order of their positions in the input.
KeepsTiesInOrder(result) ==
    \A i, j \in 1..Len(result) :
        (i < j /\ PyEq(SortKey(result[i]), SortKey(result[j]))) =>
            result[i]["t"].v < result[j]["t"].v

NoTies(rows) ==
    \A i, j \in 1..Len(rows) : i # j => ~PyEq(SortKey(rows[i]), SortKey(rows[j]))

\* C9: when sort does not raise, in either order its output holds the rows of
\* the input with the rows of equal key in their original relative order; and
\* without equal keys the descending output is the reverse of the ascending.
SortStableBothOrders ==
    /\ \A order \in DOMAIN out :
            out[order].ok =>
                /\ Len(out[order].val) = Len(args.rows)
                /\ \A i \in 1..Len(args.rows) :
                        \E k \in 1..Len(args.rows) : out[order].val[k] = args.rows[i]
                /\ KeepsTiesInOrder(out[order].val)
    /\ ({"asc", "desc"} \subseteq DOMAIN out /\ out["asc"].ok /\ out["desc"].ok /\ NoTies(args.rows)) =>
            out["desc"].val = Reverse(out["asc"].val)

\* A descending sort of three rows, two of them with the same key, that moved rows.
SortWitness ==
    /\ "desc" \in DOMAIN out
    /\ out["desc"].ok
    /\ Len(args.rows) = 3
    /\ ~NoTies(args.rows)
    /\ out["desc"].val # args.rows

IsTable(output_format) == output_format \in {"csv", "html", "markdown"}

\* The text a table layout shows for a value.
CellText(output_format, value) ==
    IF output_format = "csv" THEN CsvText(value) ELSE PyStr(value)

\* The JSON member of a field holding a value.
JsonMember(fld, value) == <<"\"", fld, "\"", ":">> \o JsonText(value)

\* In a table layout every cell of a column with a formatter shows the
\* formatter's result for the row's raw value.
TablesShowFormatted ==
    ("bytes" \in DOMAIN out /\ out["bytes"].ok /\ IsTable(args.output_format)) =>
        \A i \in 1..Len(args.data.rows), j \in 1..Len(args.definition.columns) :
            LET col == args.definition.columns[j]
                shown == CallFormatter(col.formatter, Get(args.data.rows[i], col.field, EmptyStr))
            IN  col.formatter # "none" =>
                    /\ shown.ok
                    /\ out["bytes"].val.body[i][j] = CellText(args.output_format, shown.val)

Final == {"completed", "failed"}

InFlight == {t \in Threads : pc[t] # "idle"}

\* The status of the report with an id, in the making or in the store.
StatusOf(id) ==
    IF \E t \in InFlight : frame[t].report.id = id
    THEN frame[CHOOSE t \in InFlight : frame[t].report.id = id].report.status
    ELSE IF id \in DOMAIN reports THEN reports[id].status
    ELSE "absent"

StatusMayBecome(before, after) ==
    CASE before = "absent" -> after \in {"absent", "generating"}
      [] before = "generating" -> after \in {"generating"} \cup Final
      [] before \in Final -> after = before
      [] OTHER -> FALSE

\* C1: a report starts as generating, changes once, to completed or to
\* failed, and keeps that status; it is pending at no time, and is final when
\* its call saves and returns it.
StatusChangesOnce ==
    /\ [](\A t \in Threads : pc[t] = "save" => frame[t].report.status \in Final)
    /\ [](\A id \in DOMAIN reports : reports[id].status \in Final)
    /\ [][\A id \in ReportIds : StatusMayBecome(StatusOf(id), StatusOf(id)')]_vars

\* One report is saved as completed while another has just failed.
StatusWitness ==
    /\ \E id \in DOMAIN reports : reports[id].status = "completed"
    /\ \E t \in Threads : pc[t] = "save" /\ frame[t].report.status = "failed"

\* C2: the store holds one report per finished generate call, each under its
\* own id and as the call returned it; a report in the making is not in the
\* store yet.  (Every uuid of this specification went to a generate call.)
OneSavePerCall ==
    /\ Cardinality(DOMAIN reports) + Cardinality(InFlight) = uuids
    /\ \A id \in DOMAIN reports : reports[id].id = id
    /\ \A t \in InFlight : frame[t].report.id \notin DOMAIN reports
    /\ \A t \in Threads :
            ret[t].kind = "report" =>
                /\ ret[t].report.id \in DOMAIN reports
                /\ reports[ret[t].report.id] = ret[t].report

\* Both threads are back from a call; a failed and a completed report are stored.
SaveWitness ==
    /\ \A t \in Threads : ret[t].kind = "report"
    /\ \E t \in Threads : ret[t].report.status = "failed"
    /\ \E t \in Threads : ret[t].report.status = "completed"
    /\ Cardinality(DOMAIN reports) = 2

\* C3 as stated: a report whose data source raised is failed, has a non-empty
\* error and no content.
SourceFailureHasMessage ==
    \A t \in Threads :
        LET source == frame[t].definition.data_source
            report == frame[t].report
        IN  (pc[t] = "save" /\ source # "none" /\ ~CallDataSource(source).ok) =>
                /\ report.status = "failed"
                /\ report.error.t = "str"
                /\ report.error.v # ""
                /\ report.content = NoContent

\* What the try block of a call comes to, stage by stage: the exception of
\* the first of data retrieval, filtering, sorting and formatting to raise.
TryOutcome(f) ==
    LET d == f.definition
        fetched == IF d.data_source # "none" THEN CallDataSource(d.data_source) ELSE Ok(NoData)
    IN  IF ~fetched.ok THEN [stage |-> "data", err |-> fetched.err]
        ELSE LET filtered == FilterData(fetched.val, d.filters \o f.filters)
             IN  IF ~filtered.ok THEN [stage |-> "filter", err |-> filtered.err]
                 ELSE LET sorted == IF d.sort_by # ""
                                    THEN Sort(filtered.val.rows, d.sort_by, d.sort_order)
                                    ELSE Ok(filtered.val.rows)
                      IN  IF ~sorted.ok THEN [stage |-> "sort", err |-> sorted.err]
                          ELSE LET data == IF d.sort_by # ""
                                           THEN [sized |-> TRUE, rows |-> sorted.val]
                                           ELSE filtered.val
                                   formatted == Format(d, data, f.output_format)
                               IN  IF ~formatted.ok THEN [stage |-> "format", err |-> formatted.err]
                                   ELSE [stage |-> "none", err |-> ""]

\* C4: a call for a known definition in which data retrieval, filtering,
\* sorting or formatting raises goes on to save and return its report, failed
\* and with the message of the exception as its error; no exception leaves a
\* call once its generation has begun.
StageFailuresAreCaught ==
    /\ [](\A t \in Threads :
            (pc[t] = "save" /\ TryOutcome(frame[t]).stage # "none") =>
                /\ frame[t].report.status = "failed"
                /\ frame[t].report.error = MsgV(TryOutcome(frame[t]).err))
    /\ [][\A t \in Threads :
            /\ pc[t] # "idle" => ret'[t].kind # "raised"
            /\ (pc[t] = "save" /\ pc'[t] = "idle") => ret'[t] = Returned(frame[t].report)]_vars

\* A filter of the caller met a value it cannot compare, and the report failed.
StageWitness ==
    \E t \in Threads :
        /\ pc[t] = "save"
        /\ frame[t].filters # << >>
        /\ TryOutcome(frame[t]).stage = "filter"
        /\ frame[t].report.status = "failed"

\* C5: a generate call with a definition id the store does not know returns
\* None and changes neither the three maps of the store nor any call in the
\* making; no report is created and no data source is called.
UnknownIdLeavesStore ==
    [][\A t \in Threads :
        (ret'[t] # ret[t] /\ ret'[t].definition_id \notin DOMAIN definitions) =>
            /\ ret'[t].kind = "none"
            /\ UNCHANGED <<definitions, reports, schedules, uuids, pc, frame>>]_vars

\* None was returned for an unknown id with definitions, reports and schedules stored.
UnknownIdWitness ==
    /\ ret["t1"].kind = "none"
    /\ ret["t1"].definition_id \notin DOMAIN definitions
    /\ DOMAIN definitions # {}
    /\ DOMAIN reports # {}
    /\ DOMAIN schedules # {}

HasContent(report) == report.content # NoContent
HasError(report) == report.error.t # "none"

ContentMatchesStatus(report) ==
    /\ HasContent(report) <=> report.status = "completed"
    /\ HasError(report) <=> report.status = "failed"

\* C7 as stated: a report returned or stored has content exactly when it is
\* completed and an error exactly when it is failed.
ContentIffCompleted ==
    /\ \A id \in DOMAIN reports : ContentMatchesStatus(reports[id])
    /\ \A t \in Threads : ret[t].kind = "report" => ContentMatchesStatus(ret[t].report)

\* C10: a report in the store is final and no longer in the making, no step
\* changes or removes a stored report, and what a read returned is what the
\* store holds for that id from then on.
ReadsSeeFinalReports ==
    /\ [](\A id \in DOMAIN reports :
            /\ reports[id].status \in Final
            /\ \A t \in InFlight : frame[t].report.id # id)
    /\ [](lastRead.found =>
            /\ lastRead.id \in DOMAIN reports
            /\ lastRead.op = "get_report" =>
                    /\ lastRead.status = reports[lastRead.id].status
                    /\ lastRead.status \in Final
                    /\ lastRead.row_count = reports[lastRead.id].row_count
            /\ lastRead.op = "download_report" =>
                    lastRead.content = reports[lastRead.id].content)
    /\ [][\A id \in DOMAIN reports : id \in DOMAIN reports' /\ reports'[id] = reports[id]]_vars

\* A download found a report while another thread was generating one.
ReadWitness ==
    /\ lastRead.found
    /\ lastRead.op = "download_report"
    /\ lastRead.content # NoContent
    /\ InFlight # {}

====
